---- MODULE Spec2Model ----
(***************************************************************************)
(* Tree of Failures (toff): the task execution engine.                     *)
(*                                                                         *)
(* Two engines live in the repository: the function processTask           *)
(* (tasks/processTask.ts, with tasks/executeAction.ts) that the resume and *)
(* prompt commands call, and the class method TaskManager.processTask      *)
(* (services/taskManager.ts).  Both are modelled, one step per await.      *)
(* The Store is the SQLite database: one row per task in table `task`,     *)
(* and the rows of table `attempt`.                                        *)
(***************************************************************************)
EXTENDS Integers, Sequences, FiniteSets, TLC

\* ---------------------------------------------------------------- bounds
MaxTasks == 1          \* task ids the Store can hold
MaxFiles == 2          \* file blocks the oracle attaches to one action
MaxAttempts == 2       \* TaskManager loop re-entered only below this length
MaxLongAttempts == 12  \* the same cap in the long-run specification
MaxSnapshots == 2      \* rows of docker_snapshot a task may have
MaxRestores == 2
\* attempt rows a task may have in the Store before it is resumed
MaxHistory == 11       \* successful rollbacks of the container

\* ------------------------------------------------------ program constants
Ceiling == 10

ActionTypes == {"shell", "files", "http", "llm_call", "docker", "custom"}
\* the oracle's JSON is not validated: the type may be outside ActionType
OracleTypes == ActionTypes \cup {"other"}
Terminal == {"success", "failed"}
Statuses == {"pending", "in_progress", "success", "failed"}
Engines == {"fn", "tm"}
TaskIds == 1..MaxTasks
NoId == 0
SnapshotIds == 1..MaxSnapshots
NoSnapshot == 0
\* what the outside world answers to the dispatched action; for a command:
\* it exits with 0 ("ok"), exits with another status ("bad"), is killed by a
\* signal ("signal"), or cannot be spawned ("spawn")
ExtOutcomes == {"ok", "bad", "throw", "signal", "spawn"}
\* what comes back from the completion API: text with a JSON block that has
\* the wanted field, text without a JSON block, a block that is not JSON, a
\* block without the wanted field, or a rejected request
OracleReplies == {"good", "nojson", "badjson", "nofield", "transport"}
\* prompt texts
Prompts == {"p1", "p2"}

VARIABLES
  db,          \* table task: id -> [exists, status, summary]
  dbAttempts,  \* table attempt: id -> sequence of attempt rows
  task,        \* the TaskNode object of the running (or last ended) process
  pc,          \* position of the process
  engine,      \* which engine the process runs
  cur,         \* the oracle's last reply and the action parsed from it, until it is executed
  entry,       \* status and attempts of the task when the run was entered, the command,
               \* and whether the node lacks attempts the process before it had made
  cnt,         \* per-run counters (oracle calls, executor calls, Store writes, loop
               \* iterations) and the exit codes of the commands the executor ran
  lastExec,    \* log of the executeAction call that has just returned
  world,       \* what the oracle may propose and how long a run may get
  snapshots,   \* table docker_snapshot: task id -> snapshot ids, oldest first
  env,         \* the container: running, the snapshot loaded last, restores so far
  snap,        \* outcome of the takeSnapshot call that has just returned
  other        \* a second process on the same Store: its task, pc, engine, cur,
               \* entry, cnt and lastExec while the first one is scheduled

vars == <<db, dbAttempts, task, pc, engine, cur, entry, cnt, lastExec, world,
          snapshots, env, snap, other>>

\* -------------------------------------------------------------- helpers
NoError == [code |-> "none", severity |-> "none"]
ExecutionError_Fatal == [code |-> "EXECUTION_ERROR", severity |-> "fatal"]

ExecutionError == [code |-> "EXECUTION_ERROR", severity |-> "recoverable"]

Attempt(type, status, error) ==
  [type |-> type, status |-> status, code |-> error.code, severity |-> error.severity]

\* Date.toISOString and new Date(text): a time and its text in the Store
toISOString(d) == <<"iso", d>>
Date(text) == text[2]
\* new Date() read at a later await than the time t: the clock counts
\* milliseconds, world.tick is the number of them between the two reads
Later(t) == t + world.tick

NoTask == [id |-> NoId, status |-> "pending", attempts |-> <<>>, summary |-> FALSE,
           dockerSnapshotId |-> NoSnapshot, description |-> "none", goal |-> "none",
           parentId |-> "undefined", createdAt |-> 0, updatedAt |-> 0]
NoRow == [exists |-> FALSE, status |-> "pending", summary |-> FALSE,
          docker_snapshot_id |-> NoSnapshot, description |-> "none", goal |-> "none",
          parent_id |-> "null", created_at |-> toISOString(0),
          updated_at |-> toISOString(0)]
NoCur == [type |-> "none", nFiles |-> 0, call |-> "none", reply |-> "none"]
NoExit == -1
\* error.code of a rejected exec when it is not a number: the name of a
\* system error such as "ENOENT" (StringCode), or null (NullCode)
StringCode == -2
NullCode == -3
NoOutputs == [stdout |-> "none", stderr |-> "none", result |-> "none"]
NoExec == [type |-> "none", nFiles |-> 0, faultAt |-> 0, trace |-> <<>>,
           raised |-> FALSE, threw |-> FALSE, exit |-> NoExit, ext |-> "none",
           rejected |-> FALSE, response |-> "none", outputs |-> NoOutputs,
           result |-> Attempt("none", "success", NoError)]
ZeroCnt == [oracle |-> 0, exec |-> 0, writes |-> 0, iter |-> 0, exits |-> <<>>,
            snapshots |-> 0, faults |-> 0, docker |-> <<>>, target |-> NoId]
NoSnap == [called |-> FALSE, commit |-> NoExit, id |-> NoSnapshot, rejected |-> FALSE]
NoEnv == [running |-> TRUE, loaded |-> NoSnapshot, restores |-> 0]
NoEntry == [status |-> "pending", attempts |-> <<>>, cmd |-> "none", missing |-> FALSE]
NoProcess == [task |-> NoTask, pc |-> "idle", engine |-> "fn", cur |-> NoCur,
              entry |-> NoEntry, cnt |-> ZeroCnt, lastExec |-> NoExec,
              shared |-> FALSE]

Last(s) == s[Len(s)]

IsPrefix(s, t) == Len(s) <= Len(t) /\ SubSeq(t, 1, Len(s)) = s

\* ------------------------------------------------------ executeAction
\* which answers of the world make sense for an action type
ValidExt(type, ext) ==
  CASE type \in {"shell", "docker"} -> ext \in {"ok", "bad", "signal", "spawn"}
    [] type = "http" -> TRUE
    [] type = "llm_call" -> ext \in {"ok", "throw"}
    [] OTHER -> ext = "ok"

\* dockerService.executeCommand: never rejects, a failing command is a
\* non-zero exit code
\* error.code of the rejection of execAsync: the exit status, null when
\* the command was killed by a signal, a string when it was not spawned
ErrorCode(ext) ==
  CASE ext = "bad" -> 1
    [] ext = "signal" -> NullCode
    [] OTHER -> StringCode

\* error.code || 1
OrOne(code) == IF code = NullCode \/ code = 0 THEN 1 ELSE code

CommandResult_NoCatch(ext) ==
  [rejected |-> ext # "ok", exitCode |-> 0, stdout |-> "stdout", stderr |-> "stderr"]

\* the CommandResult of executeCommand; stdout and stderr are what was captured
CommandResult(ext) ==
  IF ext = "ok"
  THEN [rejected |-> FALSE, exitCode |-> 0, stdout |-> "stdout", stderr |-> "stderr"]
  ELSE [rejected |-> FALSE, exitCode |-> OrOne(ErrorCode(ext)),
        stdout |-> "stdout", stderr |-> "stderr"]

executeCommand(ext) == CommandResult(ext).exitCode

Dispatch_ExitIgnored(type, ext) ==
  CASE type \in {"shell", "docker", "files"} -> "success"
    [] type = "http" ->
         IF ext = "throw" THEN "throw" ELSE IF ext = "ok" THEN "success" ELSE "failure"
    [] type = "llm_call" -> IF ext = "throw" THEN "throw" ELSE "success"
    [] OTHER -> "throw"

\* the switch on action.type: the status returned, or "throw"
Dispatch(type, ext) ==
  CASE type \in {"shell", "docker"} ->
         IF CommandResult(ext).rejected THEN "throw"
         ELSE IF executeCommand(ext) = 0 THEN "success" ELSE "failure"
    [] type = "files" -> "success"
    [] type = "http" ->
         IF ext = "throw" THEN "throw" ELSE IF ext = "ok" THEN "success" ELSE "failure"
    [] type = "llm_call" -> IF ext = "throw" THEN "throw" ELSE "success"
    [] type = "custom" -> "throw"
    [] OTHER -> "throw"

\* the response of an http action: fetch and response.text() both resolved
\* ("2xx" when response.ok), or one of them rejected ("none")
Response(type, ext) ==
  IF type = "http" /\ ext # "throw" THEN (IF ext = "ok" THEN "2xx" ELSE "non2xx")
  ELSE "none"

Outputs_BodyOnSuccess(type, ext) ==
  CASE type \in {"shell", "docker"} ->
         [stdout |-> "stdout", stderr |-> "stderr", result |-> "none"]
    [] type = "http" ->
         [stdout |-> "none", stderr |-> "none",
          result |-> IF ext = "ok" THEN "body" ELSE "none"]
    [] OTHER -> NoOutputs

\* the outputs of the returned attempt: what the command wrote to stdout and
\* stderr (executeCommand passes them on whether the command failed or
\* not), the response body, the count of files, the completion's message
Outputs(type, ext) ==
  CASE type \in {"shell", "docker"} ->
         [stdout |-> "stdout", stderr |-> "stderr", result |-> "none"]
    [] type = "files" -> [stdout |-> "none", stderr |-> "none", result |-> "files"]
    [] type = "http" -> [stdout |-> "none", stderr |-> "none", result |-> "body"]
    [] type = "llm_call" -> [stdout |-> "none", stderr |-> "none", result |-> "message"]
    [] OTHER -> NoOutputs

CatchResult_Fatal(type) ==
  Attempt(type, "failure", [code |-> "EXECUTION_ERROR", severity |-> "fatal"])

\* the catch block of executeAction
CatchResult(type) == Attempt(type, "failure", ExecutionError)

\* file writes of tasks/executeAction.ts: fs.mkdir/fs.writeFile reject on a
\* fault, which leaves the loop.  The writes attempted, in order.
FileWritesFn(nFiles, faultAt) ==
  [aborted |-> faultAt # 0,
   trace |-> [i \in 1..(IF faultAt # 0 THEN faultAt ELSE nFiles) |-> i]]

\* TaskManager.handleFileOperation: the command's result is not looked at
handleFileOperation(nFiles, faultAt) ==
  [aborted |-> FALSE, trace |-> [i \in 1..nFiles |-> i]]

FileWrites(eng, nFiles, faultAt) ==
  IF eng = "fn" THEN FileWritesFn(nFiles, faultAt)
  ELSE handleFileOperation(nFiles, faultAt)

\* executeAction: the log of one call.  trace lists the file writes by index
\* and the dispatch of the main action as 0; faultAt is the file whose write
\* failed (0: none); raised says that something threw inside the try block;
\* threw says that the call itself threw; exit is the exit code of the
\* command of a shell or docker action (NoExit when no such command ran).
executeAction(eng, type, nFiles, faultAt, ext) ==
  LET fw == FileWrites(eng, nFiles, faultAt)
      d == Dispatch(type, ext)
  IN  IF fw.aborted
      THEN [type |-> type, nFiles |-> nFiles, faultAt |-> faultAt,
            trace |-> fw.trace, raised |-> TRUE, threw |-> FALSE,
            exit |-> NoExit, ext |-> "none", rejected |-> FALSE,
            response |-> "none", outputs |-> NoOutputs,
            result |-> CatchResult(type)]
      ELSE [type |-> type, nFiles |-> nFiles, faultAt |-> faultAt,
            trace |-> Append(fw.trace, 0), raised |-> (d = "throw"),
            threw |-> FALSE,
            exit |-> IF type \in {"shell", "docker"} THEN executeCommand(ext) ELSE NoExit,
            ext |-> IF type \in {"shell", "docker"} THEN ext ELSE "none",
            rejected |-> type \in {"shell", "docker"} /\ CommandResult(ext).rejected,
            response |-> Response(type, ext),
            outputs |-> IF d = "throw" THEN NoOutputs ELSE Outputs(type, ext),
            result |-> IF d = "throw" THEN CatchResult(type)
                       ELSE Attempt(type, d, NoError)]

\* ------------------------------------------------------------ the oracle
\* extractJsonFromText: throws without a JSON block or when JSON.parse
\* throws, else gives the parsed object (here: has it the wanted field)
extractJsonFromText(reply) ==
  IF reply \in {"nojson", "badjson"} THEN "throw" ELSE reply

ParseReply_NoFieldCheck(reply) ==
  IF reply = "transport" THEN "throw"
  ELSE IF extractJsonFromText(reply) = "throw" THEN "throw" ELSE "ok"

\* getNextAction, handleError, getContinuationSummary after the completion
\* call: "ok" when an action (a summary) is returned, "throw" otherwise
ParseReply(reply) ==
  IF reply = "transport" THEN "throw"
  ELSE IF extractJsonFromText(reply) = "throw" THEN "throw"
  ELSE IF extractJsonFromText(reply) # "good" THEN "throw"
  ELSE "ok"

\* what an executor may return as far as the type AttemptResult goes
AnyResults(type) ==
  {Attempt(type, "success", NoError), Attempt(type, "failure", NoError),
   Attempt(type, "failure", ExecutionError),
   Attempt(type, "failure", [code |-> "EXECUTION_ERROR", severity |-> "fatal"])}

\* --------------------------------------------------------- the snapshots
\* takeSnapshot: the id is chosen, docker commit is run through
\* executeCommand, the id is returned
takeSnapshot(ext, sid) ==
  [called |-> TRUE, commit |-> executeCommand(ext), id |-> sid, rejected |-> FALSE]

\* rollbackTask lines 17-27: the task's row with the greatest created_at
LatestSnapshot(rows) == IF rows = <<>> THEN NoSnapshot ELSE rows[Len(rows)]

SnapshotFound_Always(rows) == TRUE

\* rollbackTask lines 29-31
SnapshotFound(rows) == rows # <<>>

\* the contents a task's rows of docker_snapshot may have: snapshot ids
\* carry the time of their creation, so by created_at they ascend
SnapshotRows == {[i \in 1..n |-> i] : n \in 0..MaxSnapshots}

\* ------------------------------------------------------------ the Store
\* createTask: the node of a new root task
createTask(id, text) ==
  [id |-> id, status |-> "pending", attempts |-> <<>>, summary |-> FALSE,
   dockerSnapshotId |-> NoSnapshot, description |-> text, goal |-> text,
   parentId |-> "undefined", createdAt |-> 0, updatedAt |-> 0]

\* the INSERT INTO task statement of createTask
InsertTask(t) ==
  db' = [db EXCEPT ![t.id] =
           [exists |-> TRUE, status |-> t.status, summary |-> FALSE,
            docker_snapshot_id |-> NoSnapshot, description |-> t.description,
            goal |-> t.goal,
            parent_id |-> IF t.parentId = "undefined" THEN "null" ELSE t.parentId,
            created_at |-> toISOString(t.createdAt),
            updated_at |-> toISOString(t.updatedAt)]]

UpdateTask_TouchesCreatedAt(id, status, summary) ==
  db' = [db EXCEPT ![id].status = status, ![id].summary = summary,
                   ![id].created_at = toISOString(Later(Date(db[id].updated_at))),
                   ![id].updated_at = toISOString(Later(Date(@)))]

\* the UPDATE task statement of TaskManager.processTask
UpdateTask(id, status, summary) ==
  db' = [db EXCEPT ![id].status = status, ![id].summary = summary,
                   ![id].updated_at = toISOString(Later(Date(@)))]

\* resumeTask: the TaskNode rebuilt from the task row and the attempt rows
Reconstruct(id) ==
  [id |-> id, status |-> db[id].status, attempts |-> dbAttempts[id],
   summary |-> db[id].summary, dockerSnapshotId |-> db[id].docker_snapshot_id,
   description |-> db[id].description, goal |-> db[id].goal,
   parentId |-> IF db[id].parent_id = "null" THEN "undefined" ELSE db[id].parent_id,
   createdAt |-> Date(db[id].created_at), updatedAt |-> Date(db[id].updated_at)]

FreeIds == {i \in TaskIds : ~db[i].exists}
NextId == CHOOSE i \in FreeIds : \A j \in FreeIds : i <= j

\* ----------------------------------------------------------------- Init
Init ==
  /\ db = [i \in TaskIds |-> NoRow]
  /\ dbAttempts = [i \in TaskIds |-> <<>>]
  /\ task = NoTask
  /\ pc = "idle"
  /\ engine = "fn"
  /\ cur = NoCur
  /\ entry = NoEntry
  /\ cnt = ZeroCnt
  /\ lastExec = NoExec
  /\ world = [menu |-> OracleTypes, cap |-> MaxAttempts, files |-> MaxFiles,
              executor |-> "code", prompts |-> {"p1"}, tick |-> 0,
              store |-> {"ok"},
              exts |-> {"ok", "bad", "throw"}]
  /\ snapshots = [i \in TaskIds |-> <<>>]
  /\ env = NoEnv
  /\ snap = NoSnap
  /\ other = NoProcess

\* the long-run world: the oracle proposes shell commands only
InitLong ==
  /\ db = [i \in TaskIds |-> NoRow]
  /\ dbAttempts = [i \in TaskIds |-> <<>>]
  /\ task = NoTask
  /\ pc = "idle"
  /\ engine = "fn"
  /\ cur = NoCur
  /\ entry = NoEntry
  /\ cnt = ZeroCnt
  /\ lastExec = NoExec
  /\ world = [menu |-> {"shell"}, cap |-> MaxLongAttempts, files |-> MaxFiles,
              executor |-> "code", prompts |-> {"p1"}, tick |-> 0,
              store |-> {"ok"},
              exts |-> {"ok", "bad", "throw"}]
  /\ snapshots = [i \in TaskIds |-> <<>>]
  /\ env = NoEnv
  /\ snap = NoSnap
  /\ other = NoProcess

\* ------------------------------------------------------ engine steps
LoopCond_SuccessOnly(eng, status) == status # "success"

\* the while condition of either engine
LoopCond(eng, status) ==
  IF eng = "fn" THEN status # "success" /\ status # "failed"
  ELSE status = "pending" \/ status = "in_progress"

CeilingCheck_Off(t) == [task |-> t, next |-> "summary"]

\* processTask lines 55-68, up to the call of getContinuationSummary
CeilingCheck(t) ==
  IF Len(t.attempts) >= Ceiling
  THEN [task |-> [t EXCEPT !.status = "failed"], next |-> "returned"]
  ELSE [task |-> t, next |-> "summary"]

AfterExec1Fn_NoFatal(t, res) ==
  LET t1 == [t EXCEPT !.attempts = Append(@, res)]
  IN  IF res.status = "failure"
      THEN [task |-> t1, next |-> "handleError"]
      ELSE CeilingCheck(t1)

\* processTask lines 29-58: the first result is pushed
AfterExec1Fn(t, res) ==
  LET t1 == [t EXCEPT !.attempts = Append(@, res)]
  IN  IF res.status = "failure"
      THEN IF res.severity = "fatal"
           THEN [task |-> [t1 EXCEPT !.status = "failed"], next |-> "returned"]
           ELSE [task |-> t1, next |-> "handleError"]
      ELSE CeilingCheck(t1)

AfterExec2Fn_NoFail(t, res) ==
  CeilingCheck([t EXCEPT !.attempts = Append(@, res)])

\* processTask lines 48-58: the retry result is pushed
AfterExec2Fn(t, res) ==
  LET t1 == [t EXCEPT !.attempts = Append(@, res)]
  IN  IF res.status = "failure"
      THEN [task |-> [t1 EXCEPT !.status = "failed"], next |-> "returned"]
      ELSE CeilingCheck(t1)

AfterSummaryFn_NoStore(t) ==
  IF Last(t.attempts).status = "success" THEN [t EXCEPT !.status = "success"] ELSE t

\* processTask lines 60-68: the summary is stored, success is decided
AfterSummaryFn(t) ==
  LET t1 == [t EXCEPT !.summary = TRUE]
  IN  IF Last(t1.attempts).status = "success"
      THEN [t1 EXCEPT !.status = "success"] ELSE t1

\* TaskManager.processTask lines 200-207: is a summary asked for
WantsSummaryTm(t) ==
  Len(t.attempts) > 0 /\ Last(t.attempts).status = "success"

\* TaskManager.processTask lines 174-207: next is "handleError", "summary"
\* or "update" (the UPDATE statement that ends the iteration)
AfterExec1Tm(t, res) ==
  LET t1 == [t EXCEPT !.attempts = Append(@, res), !.status = "in_progress"]
  IN  IF res.status = "failure"
      THEN IF res.severity = "fatal"
           THEN [task |-> [t1 EXCEPT !.status = "failed"], next |-> "update"]
           ELSE [task |-> t1, next |-> "handleError"]
      ELSE [task |-> t1, next |-> IF WantsSummaryTm(t1) THEN "summary" ELSE "update"]

\* TaskManager.processTask lines 192-207
AfterExec2Tm(t, res) ==
  LET t1 == [t EXCEPT !.attempts = Append(@, res)]
      t2 == IF res.status = "failure" THEN [t1 EXCEPT !.status = "failed"] ELSE t1
  IN  [task |-> t2, next |-> IF WantsSummaryTm(t2) THEN "summary" ELSE "update"]

AfterExec(eng, at, t, res) ==
  IF eng = "fn"
  THEN IF at = "exec1" THEN AfterExec1Fn(t, res) ELSE AfterExec2Fn(t, res)
  ELSE IF at = "exec1" THEN AfterExec1Tm(t, res) ELSE AfterExec2Tm(t, res)

Bump(c, f) == [c EXCEPT ![f] = @ + 1]

\* ------------------------------------------------------------- actions
\* prompt command: createTask inserts the row, then the engine is entered
Prompt(eng, text) ==
  /\ pc = "idle"
  /\ FreeIds # {}
  /\ text \in world.prompts
  /\ LET t == createTask(NextId, text)
     IN  /\ InsertTask(t)
         /\ task' = t
         /\ entry' = [status |-> t.status, attempts |-> t.attempts, cmd |-> "prompt",
                      missing |-> FALSE]
  /\ engine' = eng
  /\ pc' = "loop"
  /\ cur' = NoCur
  /\ cnt' = ZeroCnt
  /\ lastExec' = NoExec
  /\ UNCHANGED <<dbAttempts, world, snapshots, env, snap, other>>

\* the prompt command of commands/prompt.ts: the root task is created through
\* TaskManager.createTask and the command returns
promptCommand(text) ==
  /\ pc = "idle"
  /\ FreeIds # {}
  /\ text \in world.prompts
  /\ LET t == createTask(NextId, text)
     IN  /\ InsertTask(t)
         /\ task' = t
         /\ entry' = [status |-> t.status, attempts |-> t.attempts, cmd |-> "prompt",
                      missing |-> FALSE]
  /\ engine' = "tm"
  /\ pc' = "returned"
  /\ cur' = NoCur
  /\ cnt' = ZeroCnt
  /\ lastExec' = NoExec
  /\ UNCHANGED <<dbAttempts, world, snapshots, env, snap, other>>

TaskFound_Always(id) == TRUE

\* resumeTask lines 46-58: the SELECT of the task row gave a row
TaskFound(id) == db[id].exists

\* resume command: when the task has a row the node is rebuilt and the
\* engine entered, else the command exits with code 1
Resume(id) ==
  /\ pc = "idle"
  /\ IF TaskFound(id)
     THEN /\ task' = Reconstruct(id)
          /\ entry' = [status |-> Reconstruct(id).status,
                       attempts |-> Reconstruct(id).attempts, cmd |-> "resume",
                       missing |-> task.id = id
                                   /\ Len(Reconstruct(id).attempts) < Len(task.attempts)]
          /\ pc' = "loop"
     ELSE /\ task' = NoTask
          /\ entry' = [NoEntry EXCEPT !.cmd = "resume"]
          /\ pc' = "resumefailed"
  /\ engine' = "fn"
  /\ cur' = NoCur
  /\ cnt' = [ZeroCnt EXCEPT !.target = id]
  /\ lastExec' = NoExec
  /\ UNCHANGED <<db, dbAttempts, world, snapshots, env, snap, other>>

\* the caller runs the engine again on the node it got back
Rerun ==
  /\ pc = "returned"
  /\ entry' = [status |-> task.status, attempts |-> task.attempts, cmd |-> "rerun",
               missing |-> FALSE]
  /\ pc' = "loop"
  /\ cur' = NoCur
  /\ cnt' = ZeroCnt
  /\ lastExec' = NoExec
  /\ UNCHANGED <<db, dbAttempts, task, engine, world, snapshots, env, snap, other>>

\* a call of processTask suspended in the process ends with the process
\* (another process has a node of its own and goes on)
EndCalls(o) == IF o.shared THEN NoProcess ELSE o

\* the process ends after the engine or the command returned or threw
Exit ==
  /\ pc \in {"returned", "thrown", "rolledback", "rollfailed", "snapshot",
            "resumefailed"}
  /\ pc' = "idle"
  /\ cur' = NoCur
  /\ cnt' = ZeroCnt
  /\ lastExec' = NoExec
  /\ snap' = NoSnap
  /\ other' = EndCalls(other)
  /\ UNCHANGED <<db, dbAttempts, task, engine, entry, world, snapshots, env>>

\* rollbackTask lines 33-40: the docker commands in the order of the code
DockerCommands == <<"stop", "start", "load">>

Issued_All(failAt) == DockerCommands

\* the commands rollbackTask issues when the command number failAt fails
\* (0: none fails): execAsync rejects and the catch block exits
Issued(failAt) == SubSeq(DockerCommands, 1, IF failAt = 0 THEN 3 ELSE failAt)

RollbackCommands_Unchecked(rows, failAt) == Issued(failAt)

\* rollbackTask lines 29-40: nothing is issued without a snapshot row
RollbackCommands(rows, failAt) ==
  IF ~SnapshotFound(rows) THEN <<>> ELSE Issued(failAt)

\* rollback command: the latest snapshot of the task is looked up, the
\* container is stopped, started, and the snapshot loaded into it; failAt is
\* the docker command that fails (0: none), after which the command exits
Rollback(id, failAt) ==
  LET rows == snapshots[id]
      done == IF failAt = 0 THEN 3 ELSE failAt - 1
  IN  /\ pc = "idle"
      /\ IF ~SnapshotFound(rows)
         THEN /\ failAt = 0
              /\ env' = env
              /\ pc' = "rollfailed"
         ELSE /\ env.restores < MaxRestores
              /\ env' = [running |-> IF done = 0 THEN env.running ELSE done >= 2,
                         loaded |-> IF done = 3 THEN LatestSnapshot(rows) ELSE env.loaded,
                         restores |-> IF done = 3 THEN env.restores + 1 ELSE env.restores]
              /\ pc' = IF done = 3 THEN "rolledback" ELSE "rollfailed"
      /\ task' = NoTask
      /\ entry' = [NoEntry EXCEPT !.cmd = "rollback"]
      /\ cur' = NoCur
      /\ cnt' = [ZeroCnt EXCEPT
                  !.target = id,
                  !.docker = RollbackCommands(rows, failAt),
                  !.exits = [i \in 1..Len(RollbackCommands(rows, failAt)) |->
                               IF i = failAt THEN 1 ELSE 0]]
      /\ lastExec' = NoExec
      /\ UNCHANGED <<db, dbAttempts, engine, world, snapshots, snap, other>>

\* a caller of the docker service takes a snapshot of the container
TakeSnapshot(ext, sid) ==
  /\ pc = "idle"
  /\ ext \in {"ok", "bad"}
  /\ snap' = takeSnapshot(ext, sid)
  /\ pc' = "snapshot"
  /\ task' = NoTask
  /\ entry' = [NoEntry EXCEPT !.cmd = "takeSnapshot"]
  /\ cur' = NoCur
  /\ cnt' = ZeroCnt
  /\ lastExec' = NoExec
  /\ UNCHANGED <<db, dbAttempts, engine, world, snapshots, env, other>>

\* the scheduler lets the other process run: every await of a process is a
\* point where the other one may take its steps
Switch ==
  /\ other' = [task |-> task, pc |-> pc, engine |-> engine, cur |-> cur,
               entry |-> entry, cnt |-> cnt, lastExec |-> lastExec,
               shared |-> FALSE]
  /\ task' = other.task
  /\ pc' = other.pc
  /\ engine' = other.engine
  /\ cur' = other.cur
  /\ entry' = other.entry
  /\ cnt' = other.cnt
  /\ lastExec' = other.lastExec
  /\ UNCHANGED <<db, dbAttempts, world, snapshots, env, snap>>

\* the process is killed while a run is under way
Interrupt ==
  /\ pc \in {"loop", "getNextAction", "exec1", "handleError", "exec2", "summary"}
  /\ pc' = "idle"
  /\ cur' = NoCur
  /\ cnt' = ZeroCnt
  /\ lastExec' = NoExec
  /\ other' = EndCalls(other)
  /\ UNCHANGED <<db, dbAttempts, task, engine, entry, world, snapshots, env, snap>>

\* the while test and, when it passes, the call of getNextAction
\* (TaskManager.processTask reads dockerService.getSystemContext before the
\* loop; that call touches neither the task nor the Store)
LoopTest ==
  /\ pc = "loop"
  /\ IF ~LoopCond(engine, task.status)
     THEN /\ pc' = "returned"
          /\ UNCHANGED <<task, cnt>>
     ELSE /\ engine = "tm" => Len(task.attempts) < world.cap
          /\ task' = IF engine = "fn" THEN [task EXCEPT !.status = "in_progress"] ELSE task
          /\ cnt' = Bump(Bump(cnt, "oracle"), "iter")
          /\ pc' = "getNextAction"
  /\ lastExec' = NoExec
  /\ UNCHANGED <<db, dbAttempts, engine, cur, entry, world, snapshots, env, snap, other>>

\* getNextAction or handleError returns an action with its file blocks
OracleReturns(reply, type, nFiles) ==
  /\ pc \in {"getNextAction", "handleError"}
  /\ ParseReply(reply) = "ok"
  /\ type \in world.menu
  /\ nFiles <= world.files
  /\ cur' = [type |-> type, nFiles |-> nFiles, call |-> pc, reply |-> reply]
  /\ pc' = IF pc = "getNextAction" THEN "exec1" ELSE "exec2"
  /\ lastExec' = NoExec
  /\ UNCHANGED <<db, dbAttempts, task, engine, entry, cnt, world, snapshots, env, snap, other>>

\* the catch block of TaskManager.processTask on the node t: the status is
\* set to failed, the UPDATE is run (w: it succeeds or throws in its turn,
\* and then its exception is the one that leaves processTask)
Catch(t, c) ==
  \E w \in world.store :
    /\ task' = [t EXCEPT !.status = "failed"]
    /\ IF w = "ok"
       THEN /\ db' = [db EXCEPT ![t.id].status = "failed",
                               ![t.id].updated_at = toISOString(Later(Date(@)))]
            /\ cnt' = Bump(c, "writes")
       ELSE /\ db' = db
            /\ cnt' = Bump(c, "faults")
    /\ pc' = "thrown"

Propagate_Catches ==
  /\ task' = [task EXCEPT !.status = "failed"]
  /\ db' = [db EXCEPT ![task.id].status = "failed",
                     ![task.id].updated_at = toISOString(Later(Date(@)))]
  /\ cnt' = Bump(cnt, "writes")
  /\ pc' = "thrown"

\* an exception leaves the loop: the function engine lets it through to the
\* command, which exits; TaskManager.processTask catches, marks the task
\* failed in memory and in the Store, and rethrows
Propagate ==
  IF engine = "fn"
  THEN /\ pc' = "thrown"
       /\ UNCHANGED <<db, task>>
       /\ cnt' = cnt
  ELSE Catch(task, cnt)

\* an oracle call throws (no JSON block, no action, transport error)
OracleThrows(reply) ==
  /\ pc \in {"getNextAction", "handleError", "summary"}
  /\ ParseReply(reply) = "throw"
  /\ Propagate
  /\ cur' = [type |-> "invalid", nFiles |-> 0, call |-> pc, reply |-> reply]
  /\ lastExec' = NoExec
  /\ UNCHANGED <<dbAttempts, engine, entry, world, snapshots, env, snap, other>>

\* executeAction runs and the engine goes on to its next await
Exec ==
  /\ pc \in {"exec1", "exec2"}
  /\ \E faultAt \in 0..cur.nFiles, ext \in ExtOutcomes :
       /\ ValidExt(cur.type, ext)
       /\ ext \in world.exts
       /\ \E res \in (IF world.executor = "code"
                     THEN {executeAction(engine, cur.type, cur.nFiles, faultAt, ext).result}
                     ELSE AnyResults(cur.type)) :
          LET r == [executeAction(engine, cur.type, cur.nFiles, faultAt, ext)
                      EXCEPT !.result = res]
              a == AfterExec(engine, pc, task, r.result)
              logged == [cnt EXCEPT !.exits = Append(@, r.exit)]
          IN  /\ lastExec' = r
              /\ IF r.threw
                 THEN /\ Propagate
                      /\ UNCHANGED dbAttempts
                 ELSE /\ dbAttempts' = dbAttempts
                      /\ IF a.next = "update"
                         THEN \E w \in world.store :
                                IF w = "ok"
                                THEN /\ task' = a.task
                                     /\ UpdateTask(task.id, a.task.status, a.task.summary)
                                     /\ cnt' = Bump(Bump(logged, "exec"), "writes")
                                     /\ pc' = "loop"
                                ELSE Catch(a.task, Bump(Bump(logged, "exec"), "faults"))
                         ELSE /\ task' = a.task
                              /\ db' = db
                              /\ cnt' = IF a.next = "returned" THEN Bump(logged, "exec")
                                        ELSE Bump(Bump(logged, "exec"), "oracle")
                              /\ pc' = a.next
  /\ cur' = NoCur
  /\ UNCHANGED <<engine, entry, world, snapshots, env, snap, other>>

\* getContinuationSummary returns
SummaryReturns ==
  /\ pc = "summary"
  /\ IF engine = "fn"
     THEN /\ task' = AfterSummaryFn(task)
          /\ UNCHANGED <<db, cnt>>
          /\ pc' = "loop"
     ELSE \E w \in world.store :
            IF w = "ok"
            THEN /\ task' = [task EXCEPT !.summary = TRUE]
                 /\ UpdateTask(task.id, task.status, TRUE)
                 /\ cnt' = Bump(cnt, "writes")
                 /\ pc' = "loop"
            ELSE Catch([task EXCEPT !.summary = TRUE], Bump(cnt, "faults"))
  /\ lastExec' = NoExec
  /\ UNCHANGED <<dbAttempts, engine, cur, entry, world, snapshots, env, snap, other>>

Next ==
  \/ \E eng \in Engines, text \in Prompts : Prompt(eng, text)
  \/ \E text \in Prompts : promptCommand(text)
  \/ \E id \in TaskIds, failAt \in 0..3 : Rollback(id, failAt)
  \/ \E id \in TaskIds : Resume(id)
  \/ Rerun
  \/ Exit
  \/ Interrupt
  \/ LoopTest
  \/ \E reply \in OracleReplies, type \in OracleTypes, nFiles \in 0..MaxFiles :
       OracleReturns(reply, type, nFiles)
  \/ \E reply \in OracleReplies : OracleThrows(reply)
  \/ Exec
  \/ SummaryReturns

Spec == Init /\ [][Next]_vars

SpecLong == InitLong /\ [][Next]_vars

\* The engines taken against the executor's declared return type: the
\* executor called by Exec may return any AttemptResult for the action,
\* severity fatal included (no executor of the repository produces fatal).
InitOpen ==
  /\ db = [i \in TaskIds |-> NoRow]
  /\ dbAttempts = [i \in TaskIds |-> <<>>]
  /\ task = NoTask
  /\ pc = "idle"
  /\ engine = "fn"
  /\ cur = NoCur
  /\ entry = NoEntry
  /\ cnt = ZeroCnt
  /\ lastExec = NoExec
  /\ world = [menu |-> {"shell"}, cap |-> MaxAttempts, files |-> 0,
              executor |-> "any", prompts |-> {"p1"}, tick |-> 0,
              store |-> {"ok"},
              exts |-> {"ok", "bad", "throw"}]
  /\ snapshots = [i \in TaskIds |-> <<>>]
  /\ env = NoEnv
  /\ snap = NoSnap
  /\ other = NoProcess

SpecOpen == InitOpen /\ [][Next]_vars

\* The snapshot operations: docker_snapshot holds rows (no statement of the
\* repository creates or fills the table, its contents come from outside),
\* and the docker service's takeSnapshot is called.
InitOps ==
  /\ db = [i \in TaskIds |-> NoRow]
  /\ dbAttempts = [i \in TaskIds |-> <<>>]
  /\ task = NoTask
  /\ pc = "idle"
  /\ engine = "fn"
  /\ cur = NoCur
  /\ entry = NoEntry
  /\ cnt = ZeroCnt
  /\ lastExec = NoExec
  /\ world = [menu |-> {"shell"}, cap |-> MaxAttempts, files |-> 0,
              executor |-> "code", prompts |-> {"p1"}, tick |-> 0,
              store |-> {"ok"},
              exts |-> {"ok", "bad", "throw"}]
  /\ snapshots \in [TaskIds -> SnapshotRows]
  /\ env = NoEnv
  /\ snap = NoSnap
  /\ other = NoProcess

NextOps ==
  \/ Next
  \/ \E ext \in ExtOutcomes, sid \in SnapshotIds : TakeSnapshot(ext, sid)

SpecOps == InitOps /\ [][NextOps]_vars

\* Two processes on one Store and one container (two terminals running the
\* command line at the same time).
InitConc ==
  /\ db = [i \in TaskIds |-> NoRow]
  /\ dbAttempts = [i \in TaskIds |-> <<>>]
  /\ task = NoTask
  /\ pc = "idle"
  /\ engine = "fn"
  /\ cur = NoCur
  /\ entry = NoEntry
  /\ cnt = ZeroCnt
  /\ lastExec = NoExec
  /\ world = [menu |-> {"shell"}, cap |-> MaxAttempts, files |-> 0,
              executor |-> "code", prompts |-> {"p1"}, tick |-> 0,
              store |-> {"ok"},
              exts |-> {"ok", "bad", "throw"}]
  /\ snapshots = [i \in TaskIds |-> <<>>]
  /\ env = NoEnv
  /\ snap = NoSnap
  /\ other = NoProcess

NextConc ==
  \/ Next
  \/ Switch

SpecConc == InitConc /\ [][NextConc]_vars

\* The engines called as a library: the clock advances between two reads,
\* the prompts differ, and a caller may call processTask on a node while an
\* earlier call on the same node is suspended at an await (nothing in
\* processTask refuses the second call).
InitCalls ==
  /\ db = [i \in TaskIds |-> NoRow]
  /\ dbAttempts = [i \in TaskIds |-> <<>>]
  /\ task = NoTask
  /\ pc = "idle"
  /\ engine = "fn"
  /\ cur = NoCur
  /\ entry = NoEntry
  /\ cnt = ZeroCnt
  /\ lastExec = NoExec
  /\ world = [menu |-> {"shell"}, cap |-> MaxAttempts, files |-> 0,
              executor |-> "code", prompts |-> Prompts, tick |-> 1,
              store |-> {"ok"},
              exts |-> {"ok", "bad", "throw"}]
  /\ snapshots = [i \in TaskIds |-> <<>>]
  /\ env = NoEnv
  /\ snap = NoSnap
  /\ other = NoProcess

\* processTask is called on the node of a call that is suspended at an await;
\* the two calls hold the same object
Reenter ==
  /\ pc \in {"getNextAction", "exec1", "handleError", "exec2", "summary"}
  /\ other = NoProcess
  /\ engine = "tm"
  /\ entry.cmd = "prompt"
  /\ Len(task.attempts) < world.cap
  /\ other' = [task |-> NoTask, pc |-> pc, engine |-> engine, cur |-> cur,
               entry |-> entry, cnt |-> cnt, lastExec |-> NoExec,
               shared |-> TRUE]
  /\ entry' = [status |-> task.status, attempts |-> task.attempts, cmd |-> "rerun",
               missing |-> FALSE]
  /\ pc' = "loop"
  /\ cur' = NoCur
  /\ cnt' = ZeroCnt
  /\ lastExec' = NoExec
  /\ UNCHANGED <<db, dbAttempts, task, engine, world, snapshots, env, snap>>

\* the event loop resumes the other call of processTask on the node
Resched ==
  /\ other.pc \in {"getNextAction", "exec1", "handleError", "exec2", "summary"}
  /\ pc \in {"getNextAction", "exec1", "handleError", "exec2", "summary",
              "returned", "thrown"}
  /\ other' = IF pc \in {"returned", "thrown"} THEN NoProcess
              ELSE [task |-> NoTask, pc |-> pc, engine |-> engine, cur |-> cur,
                    entry |-> entry, cnt |-> cnt, lastExec |-> NoExec,
                    shared |-> TRUE]
  /\ pc' = other.pc
  /\ cur' = other.cur
  /\ entry' = other.entry
  /\ cnt' = other.cnt
  /\ lastExec' = NoExec
  /\ UNCHANGED <<db, dbAttempts, task, engine, world, snapshots, env, snap>>

NextCalls ==
  \/ Next
  \/ Reenter
  \/ Resched

SpecCalls == InitCalls /\ [][NextCalls]_vars

TypeOK ==
  /\ pc \in {"idle", "loop", "getNextAction", "exec1", "handleError", "exec2",
             "summary", "returned", "thrown", "rolledback", "rollfailed", "snapshot",
             "resumefailed"}
  /\ engine \in Engines
  /\ task.status \in Statuses
  /\ \A i \in TaskIds : db[i].status \in Statuses
  /\ \A i \in TaskIds : snapshots[i] \in SnapshotRows
  /\ env.loaded \in SnapshotIds \cup {NoSnapshot}
  /\ env.restores \in 0..MaxRestores
  /\ snap.id \in SnapshotIds \cup {NoSnapshot}
  /\ task.description \in Prompts \cup {"none"}
  /\ task.goal \in Prompts \cup {"none"}
  /\ task.createdAt \in Nat /\ task.updatedAt \in Nat
  /\ \A i \in TaskIds : /\ db[i].description \in Prompts \cup {"none"}
                        /\ Date(db[i].created_at) \in Nat
                        /\ Date(db[i].updated_at) \in Nat

\* ================================================================ claims

\* C1: running the engine on a task that is already success or failed is a
\* no-op: the run goes from the loop test straight to the return, the status
\* and the attempts are those at entry, and the run makes no oracle call, no
\* executor call and no Store write.
C1_TerminalRunIsNoOp ==
  entry.status \in Terminal =>
    /\ pc \in {"loop", "returned", "idle"}
    /\ task.status = entry.status
    /\ task.attempts = entry.attempts
    /\ cnt.oracle = 0 /\ cnt.exec = 0 /\ cnt.writes = 0 /\ cnt.iter = 0

\* a finished task with attempts was handed to the engine again, which returned
C1_Witness ==
  /\ pc = "returned"
  /\ entry.status = "success"
  /\ Len(entry.attempts) > 0
  /\ cnt.oracle = 0 /\ cnt.exec = 0 /\ cnt.writes = 0

Allowed(s, t) ==
  \/ s = t
  \/ s = "pending" /\ t = "in_progress"
  \/ s = "in_progress" /\ t \in Terminal

\* C2: a task's status changes only along pending -> in_progress ->
\* {success, failed}, in the node and in its Store row, over any sequence of
\* createTask, processTask and resumeTask.
C2_StatusTransitions ==
  [][/\ task'.id = task.id => Allowed(task.status, task'.status)
     /\ \A i \in TaskIds : db[i].exists => Allowed(db[i].status, db'[i].status)]_vars

\* C3: a run of the engine returns after at most Ceiling loop iterations,
\* whatever the oracle and the executor answer.
C3_TerminatesWithinCeiling == cnt.iter <= Ceiling

\* C4: at every oracle call the Store already holds every attempt made so far.
C4_WriteBeforeOracleCall ==
  pc \in {"getNextAction", "handleError", "summary"} =>
    dbAttempts[task.id] = task.attempts

\* C5: once the engine has returned a finished node, rebuilding the node from
\* the Store (resumeTask) gives the same id, status and attempt sequence.
C5_RoundTrip ==
  (pc = "returned" /\ task.status \in Terminal) =>
    /\ Reconstruct(task.id).id = task.id
    /\ Reconstruct(task.id).status = task.status
    /\ Reconstruct(task.id).attempts = task.attempts

\* C6: over a node's lifetime (runs, interruption, reconstruction by
\* resumeTask) its attempts only grow at the end.
C6_AttemptsAppendOnly ==
  [][task'.id = task.id => IsPrefix(task.attempts, task'.attempts)]_vars

\* C7: executeAction never throws, and whenever a fault is raised while the
\* files are written or the action is dispatched the result is a failure
\* with code EXECUTION_ERROR and severity recoverable.
C7_ExecutorNeverThrows ==
  lastExec.type # "none" =>
    /\ ~lastExec.threw
    /\ lastExec.raised =>
         /\ lastExec.result.status = "failure"
         /\ lastExec.result.code = "EXECUTION_ERROR"
         /\ lastExec.result.severity = "recoverable"
         /\ Last(task.attempts) = lastExec.result

\* a file write of an http action threw in the function engine's executor
C7_Witness ==
  /\ lastExec.type = "http"
  /\ lastExec.faultAt = 2
  /\ lastExec.raised
  /\ engine = "fn"
  /\ pc = "handleError"

Ascending(s) == \A i \in 1..Len(s) : s[i] = IF i <= lastExec.nFiles THEN i ELSE 0

\* C8: the file writes are applied in order before the main action is
\* dispatched, and when a write fails the action is not dispatched and the
\* attempt is a failure with EXECUTION_ERROR, recoverable.
C8_WritesBeforeDispatch ==
  lastExec.type # "none" =>
    /\ Ascending(lastExec.trace)
    /\ lastExec.faultAt # 0 =>
         /\ \A i \in 1..Len(lastExec.trace) : lastExec.trace[i] # 0
         /\ lastExec.result = Attempt(lastExec.type, "failure", ExecutionError)

\* C9: an attempt of a custom action is a failure identifying
\* UnsupportedAction with severity fatal, and no handleError call follows it.
C9_CustomIsFatal ==
  /\ \A i \in 1..Len(task.attempts) :
       task.attempts[i].type = "custom" =>
         /\ task.attempts[i].status = "failure"
         /\ task.attempts[i].code = "UnsupportedAction"
         /\ task.attempts[i].severity = "fatal"
  /\ (pc = "handleError" /\ Len(task.attempts) > 0) =>
       Last(task.attempts).type # "custom"

\* C10: an executed attempt turns the task failed only when it is fatal or
\* the attempt ceiling is reached; recoverable failures below the ceiling
\* leave the task non-failed.
C10_FailedOnlyOnFatalOrCeiling ==
  [][(pc \in {"exec1", "exec2"} /\ task'.id = task.id
      /\ task.status # "failed" /\ task'.status = "failed") =>
       \/ Last(task'.attempts).severity = "fatal"
       \/ Len(task'.attempts) >= Ceiling]_vars

\* an attempt appended in the current run has severity fatal
FatalInRun ==
  \E i \in (Len(entry.attempts) + 1)..Len(task.attempts) :
    task.attempts[i].severity = "fatal"

\* C11: once an attempt of the run has failed with severity fatal the task is
\* failed and the run is over: it makes no further oracle call
\* (getNextAction, handleError, getContinuationSummary) and no further
\* executor call.
C11_FatalTerminates ==
  FatalInRun =>
    /\ task.status = "failed"
    /\ pc \in {"loop", "returned", "idle"}
    /\ Last(task.attempts).severity = "fatal"

\* the function engine's first attempt came back fatal and the run returned
C11_Witness ==
  /\ FatalInRun
  /\ engine = "fn"
  /\ pc = "returned"
  /\ task.status = "failed"
  /\ cnt.oracle = 1 /\ cnt.exec = 1

\* C12: for a fresh root task, when the first shell command exits nonzero and
\* the command proposed after the failure exits 0, the run ends with status
\* success and exactly two attempts, the first a failure with
\* EXECUTION_ERROR, recoverable, the second a success.
C12_RetryScenario ==
  (/\ pc = "returned"
   /\ entry.status = "pending" /\ entry.attempts = <<>>
   /\ Len(cnt.exits) >= 2 /\ cnt.exits[1] = 1 /\ cnt.exits[2] = 0
   /\ Len(task.attempts) >= 1 /\ task.attempts[1].type = "shell") =>
    /\ task.status = "success"
    /\ Len(task.attempts) = 2
    /\ task.attempts[1] = Attempt("shell", "failure", ExecutionError)
    /\ task.attempts[2].status = "success"

\* C13: when the reply to getNextAction has no JSON block, or a block without
\* an action, the call throws before the executor is entered: the step
\* appends no attempt to the node, stores none, makes no executor call, and
\* ends the run.
C13_InvalidReplyBeforeExecutor ==
  [][(/\ pc = "getNextAction"
      /\ cur'.call = "getNextAction"
      /\ cur'.reply \in {"nojson", "nofield"}) =>
       /\ task'.attempts = task.attempts
       /\ dbAttempts' = dbAttempts
       /\ cnt'.exec = cnt.exec
       /\ pc' \in {"idle", "thrown"}]_vars

\* the function engine's first oracle call got text without a JSON block
C13_Witness ==
  /\ cur.call = "getNextAction"
  /\ cur.reply = "nojson"
  /\ cur.type = "invalid"
  /\ engine = "fn"
  /\ pc = "thrown"
  /\ cnt.exec = 0
  /\ task.attempts = entry.attempts

\* C14: a task never holds more than Ceiling attempts, and once it holds
\* Ceiling attempts no further action is executed.
C14_CeilingIsHard ==
  /\ Len(task.attempts) <= Ceiling
  /\ Len(task.attempts) >= Ceiling => pc \notin {"exec1", "exec2"}

\* C15: whenever the engine is about to execute an action it has taken a
\* checkpoint since the previous action and attached the snapshot id to the
\* node.
C15_CheckpointBeforeAction ==
  pc \in {"exec1", "exec2"} =>
    /\ cnt.snapshots = cnt.exec + 1
    /\ task.dockerSnapshotId # NoSnapshot

\* C16: takeSnapshot either returns the id of a snapshot that docker commit
\* created or rejects; when the commit failed no id is returned.
C16_SnapshotAtomic ==
  snap.called =>
    IF snap.commit = 0
    THEN snap.id # NoSnapshot /\ ~snap.rejected
    ELSE snap.id = NoSnapshot /\ snap.rejected

\* C17: a rollback makes no oracle call and no executor call, changes no
\* task row, no attempt row and no snapshot row, and when it succeeds the
\* container runs with a stored snapshot of the task loaded.
C17_RollbackFrame ==
  [][(pc = "idle" /\ pc' \in {"rolledback", "rollfailed"}) =>
       /\ db' = db
       /\ dbAttempts' = dbAttempts
       /\ snapshots' = snapshots
       /\ cnt'.oracle = 0 /\ cnt'.exec = 0 /\ cnt'.writes = 0
       /\ pc' = "rolledback" =>
            /\ env'.running
            /\ env'.loaded # NoSnapshot
            /\ \E i \in TaskIds : env'.loaded = LatestSnapshot(snapshots[i])]_vars

\* the same snapshot of a task that has been run was restored a second time
C17_Witness ==
  /\ pc = "rolledback"
  /\ env.restores = 2
  /\ env.loaded = LatestSnapshot(snapshots[1])
  /\ Len(snapshots[1]) = 2
  /\ db[1].exists /\ db[1].status # "pending"

\* C18: two runs on the same task are serialized: they never execute the
\* task's actions at the same time against the one container.
C18_RunsSerialized ==
  (task.id # NoId /\ other.task.id = task.id) =>
    ~(pc \in {"exec1", "exec2"} /\ other.pc \in {"exec1", "exec2"})

\* C19: the prompt command creates a pending root task in the Store and runs
\* the engine on it, so that when the command returns the task is success or
\* failed.
C19_PromptRunsEngine ==
  (entry.cmd = "prompt" /\ pc = "returned") =>
    /\ db[task.id].exists
    /\ task.status \in Terminal

\* C20: every recorded attempt has an error exactly when its status is
\* failure.
C20_ErrorIffFailure ==
  \A i \in 1..Len(task.attempts) :
    (task.attempts[i].status = "failure") <=> (task.attempts[i].code # "none")

\* C21: when the command of a shell or docker action has run, the attempt is
\* a success exactly when its exit code is 0, a failure for any other exit
\* code, and either way its outputs are the command's stdout and stderr.
C21_ExitCodeDecides ==
  (lastExec.type \in {"shell", "docker"} /\ lastExec.exit # NoExit) =>
    /\ lastExec.result.status = (IF lastExec.exit = 0 THEN "success" ELSE "failure")
    /\ lastExec.outputs.stdout = "stdout"
    /\ lastExec.outputs.stderr = "stderr"
    /\ Last(task.attempts) = lastExec.result

\* a docker command exited with 1 and its attempt was recorded
C21_Witness ==
  /\ lastExec.type = "docker"
  /\ lastExec.exit = 1
  /\ lastExec.result.status = "failure"
  /\ lastExec.outputs.stdout = "stdout"
  /\ pc = "handleError"

\* C22: when the response of an http action has arrived, the attempt is a
\* success exactly when the response is 2xx, a failure otherwise, and either
\* way outputs.result is the response body.
C22_HttpStatusDecides ==
  (lastExec.type = "http" /\ lastExec.response # "none") =>
    /\ lastExec.result.status = (IF lastExec.response = "2xx" THEN "success" ELSE "failure")
    /\ lastExec.outputs.result = "body"
    /\ Last(task.attempts) = lastExec.result

\* a non-2xx response was recorded by the TaskManager engine
C22_Witness ==
  /\ lastExec.type = "http"
  /\ lastExec.response = "non2xx"
  /\ lastExec.result.status = "failure"
  /\ lastExec.outputs.result = "body"
  /\ engine = "tm"

\* C23: an oracle reply that cannot be parsed does not make the task failed:
\* after the throw the node and its Store row are in a non-terminal status.
C23_InvalidReplyRecoverable ==
  (/\ pc = "thrown"
   /\ cur.type = "invalid"
   /\ cur.reply \in {"nojson", "badjson", "nofield"}) =>
    /\ task.status \notin Terminal
    /\ db[task.id].status \notin Terminal

C25_OracleSeesFullHistory ==
  /\ pc \in {"getNextAction", "handleError"} =>
       /\ ~entry.missing
       /\ Len(task.attempts) = Len(entry.attempts) + cnt.exec
  /\ pc = "handleError" =>
       Len(task.attempts) > 0 /\ Last(task.attempts).status = "failure"

\* C30: one call of the function engine goes through the loop body at most
\* once: at most one getNextAction, three oracle calls in all, two executor
\* calls and two attempts appended.
C30_OneIterationPerCall ==
  engine = "fn" =>
    /\ cnt.iter <= 1
    /\ cnt.oracle <= 3
    /\ cnt.exec <= 2
    /\ Len(task.attempts) <= Len(entry.attempts) + 2
    /\ pc \in {"handleError", "exec2"} => cnt.oracle = 2
    /\ pc = "summary" => cnt.oracle = cnt.exec + 1

\* the function engine ran the loop body with a retry and returned
C30_Witness ==
  /\ engine = "fn"
  /\ pc = "returned"
  /\ cnt.iter = 1
  /\ cnt.exec = 2
  /\ Len(task.attempts) = Len(entry.attempts) + 2
  /\ task.status = "failed"

\* the awaits and the loop test of a run
RunPcs == {"loop", "getNextAction", "exec1", "handleError", "exec2", "summary"}

\* C26: once the stored status of a task is success or failed, no step
\* changes the stored status, continuation summary or updated_at of its record.
C26_TerminalRowFrozen ==
  [][\A i \in TaskIds :
       (db[i].exists /\ db[i].status \in Terminal) =>
         /\ db'[i].status = db[i].status
         /\ db'[i].summary = db[i].summary
         /\ db'[i].updated_at = db[i].updated_at]_vars

\* C28: no step of a run changes the id, description, goal, parentId,
\* createdAt (or dockerSnapshotId) of the node, no step at all changes the
\* description, goal, parent_id or created_at of an existing record, and the
\* node's values of these fields are those of its record.
C28_ImmutableFields ==
  [][/\ pc \in RunPcs =>
          /\ task'.id = task.id
          /\ task'.description = task.description
          /\ task'.goal = task.goal
          /\ task'.parentId = task.parentId
          /\ task'.createdAt = task.createdAt
          /\ task'.dockerSnapshotId = task.dockerSnapshotId
     /\ \A i \in TaskIds :
          db[i].exists =>
            /\ db'[i].exists
            /\ db'[i].description = db[i].description
            /\ db'[i].goal = db[i].goal
            /\ db'[i].parent_id = db[i].parent_id
            /\ db'[i].created_at = db[i].created_at
     /\ task'.id # NoId =>
          /\ db'[task'.id].description = task'.description
          /\ db'[task'.id].goal = task'.goal
          /\ db'[task'.id].created_at = toISOString(task'.createdAt)
          /\ (db'[task'.id].parent_id = "null") = (task'.parentId = "undefined")]_vars

\* a run of TaskManager.processTask on the task of prompt "p2" wrote the
\* record twice and returned
C28_Witness ==
  /\ pc = "returned"
  /\ engine = "tm"
  /\ task.description = "p2" /\ task.goal = "p2"
  /\ db[task.id].description = "p2"
  /\ Date(db[task.id].updated_at) >= Date(db[task.id].created_at) + 2
  /\ Len(task.attempts) = 2

\* C29: whenever a step of a run changes the status, the attempts or the
\* continuation summary of the node, the node's updatedAt and the record's
\* updated_at are strictly later than before the step.
C29_UpdatedAtAdvances ==
  [][(/\ pc \in RunPcs
      /\ task'.id = task.id
      /\ \/ task'.status # task.status
         \/ task'.attempts # task.attempts
         \/ task'.summary # task.summary) =>
       /\ task'.updatedAt > task.updatedAt
       /\ Date(db'[task.id].updated_at) > Date(db[task.id].updated_at)]_vars

\* The scheduling of a run: the engine's own steps (the loop test, the end
\* of the process) are taken when they can be; the answer of the oracle or
\* of the executor is outside the program and may never come.
SpecLive == Init /\ [][Next]_vars /\ WF_vars(LoopTest) /\ WF_vars(Exit)

\* the suspension points of a run
AwaitPcs == {"getNextAction", "exec1", "handleError", "exec2", "summary"}

\* C27: a run never stays at a suspension point forever: whether or not the
\* call returns, the run leaves the await (a timeout records a failure and
\* the run goes on or ends).
C27_AwaitsBounded ==
  \A p \in AwaitPcs : (pc = p) ~> (pc # p)

\* the first attempt appended by the current call of the engine has failed
FirstAttemptFailed ==
  /\ cnt.exec >= 1
  /\ Len(task.attempts) > Len(entry.attempts)
  /\ task.attempts[Len(entry.attempts) + 1].status = "failure"

History(n, status) ==
  [i \in 1..n |-> Attempt("shell", status,
                          IF status = "failure" THEN ExecutionError ELSE NoError)]

\* the lengths of history tried: none, and those from which a call of the
\* engine can reach the ceiling
HistoryLens == {0} \cup ((Ceiling - 2)..MaxHistory)

InitHist ==
  /\ db = [i \in TaskIds |-> NoRow]
  /\ dbAttempts \in [TaskIds -> {History(n, st) : n \in HistoryLens,
                                                st \in {"success", "failure"}}]
  /\ task = NoTask
  /\ pc = "idle"
  /\ engine = "fn"
  /\ cur = NoCur
  /\ entry = NoEntry
  /\ cnt = ZeroCnt
  /\ lastExec = NoExec
  /\ world = [menu |-> {"shell"}, cap |-> MaxAttempts, files |-> 0,
              executor |-> "code", prompts |-> {"p1"}, tick |-> 0,
              store |-> {"ok"},
              exts |-> {"ok", "bad", "throw"}]
  /\ snapshots = [i \in TaskIds |-> <<>>]
  /\ env = NoEnv
  /\ snap = NoSnap
  /\ other = NoProcess

SpecHist == InitHist /\ [][Next]_vars

C33_ReturnOrPropagate ==
  [][/\ (engine' = "fn" /\ pc # "returned" /\ pc' = "returned") =>
          task'.status \in Terminal
     /\ (engine = "fn" /\ pc \in AwaitPcs /\ pc' = "thrown") =>
          /\ pc \in {"getNextAction", "handleError", "summary"}
          /\ task' = task
          /\ task.status = "in_progress"
          /\ IsPrefix(entry.attempts, task.attempts)
          /\ Len(task.attempts) = Len(entry.attempts) + cnt.exec
          /\ db' = db /\ dbAttempts' = dbAttempts
          /\ cnt'.writes = 0]_vars

\* getContinuationSummary threw after a failed attempt and a successful retry
C33_Witness ==
  /\ engine = "fn"
  /\ pc = "thrown"
  /\ cur.call = "summary"
  /\ task.status = "in_progress"
  /\ Len(task.attempts) = Len(entry.attempts) + 2
  /\ Last(task.attempts).status = "success"
  /\ ~task.summary

\* The environment may fail: a statement run against the Store succeeds or
\* throws (the file is locked by another process, the disk is full), and a
\* command may be killed by a signal or fail to be spawned.
InitFault ==
  /\ db = [i \in TaskIds |-> NoRow]
  /\ dbAttempts = [i \in TaskIds |-> <<>>]
  /\ task = NoTask
  /\ pc = "idle"
  /\ engine = "fn"
  /\ cur = NoCur
  /\ entry = NoEntry
  /\ cnt = ZeroCnt
  /\ lastExec = NoExec
  /\ world = [menu |-> {"shell"}, cap |-> MaxAttempts, files |-> 0,
              executor |-> "code", prompts |-> {"p1"}, tick |-> 1,
              store |-> {"ok", "throw"}, exts |-> ExtOutcomes]
  /\ snapshots = [i \in TaskIds |-> <<>>]
  /\ env = NoEnv
  /\ snap = NoSnap
  /\ other = NoProcess

SpecFault == InitFault /\ [][Next]_vars

\* C34: whenever TaskManager.processTask is left by an exception thrown
\* inside its loop (by an oracle call, by the parsing of its reply or by the
\* Store write), the node's status is failed and the Store holds status
\* failed for the task.
C34_CatchMarksFailed ==
  (engine = "tm" /\ pc = "thrown") =>
    /\ task.status = "failed"
    /\ db[task.id].status = "failed"

\* C35: executeCommand never rejects: for a command that has run the exit
\* code is 0 exactly when the command succeeded, any failure (another exit
\* status, a signal, a spawn error) gives a result with an exit code other
\* than 0 and the captured stdout and stderr, and no exception.
C35_CommandNeverRejects ==
  (lastExec.type \in {"shell", "docker"} /\ lastExec.ext # "none") =>
    /\ ~lastExec.rejected
    /\ ~lastExec.raised /\ ~lastExec.threw
    /\ (lastExec.ext = "ok") = (lastExec.exit = 0)
    /\ lastExec.outputs.stdout = "stdout" /\ lastExec.outputs.stderr = "stderr"

\* a shell command was killed by a signal: exit code 1, a failure
C35_Witness ==
  /\ lastExec.type = "shell"
  /\ lastExec.ext = "signal"
  /\ lastExec.exit = 1
  /\ lastExec.result.status = "failure"
  /\ lastExec.result.code = "none"

\* C36: a rollback of a task that has no snapshot row ends with the error
\* exit, issues no docker command (no stop, start or load), leaves the
\* container as it was and writes nothing to the Store.
C36_NoSnapshotNoCommand ==
  [][(/\ pc = "idle"
      /\ entry'.cmd = "rollback"
      /\ pc' \in {"rolledback", "rollfailed"}
      /\ snapshots[cnt'.target] = <<>>) =>
       /\ pc' = "rollfailed"
       /\ cnt'.docker = <<>>
       /\ env' = env
       /\ db' = db /\ dbAttempts' = dbAttempts /\ snapshots' = snapshots
       /\ cnt'.writes = 0]_vars

\* a rollback was asked for a stored task without snapshots, after an
\* earlier rollback had loaded a snapshot of another task
C36_Witness ==
  /\ pc = "rollfailed"
  /\ entry.cmd = "rollback"
  /\ cnt.target # NoId
  /\ snapshots[cnt.target] = <<>>
  /\ db[cnt.target].exists
  /\ cnt.docker = <<>>

\* C37: a rollback of a task that has snapshot rows issues stop, start and
\* load in this order and stops at the first command that fails; when all
\* three succeed the snapshot loaded is the one created last among the
\* task's rows, and when one fails the command ends with the error exit.
C37_LatestSnapshotInOrder ==
  [][(/\ pc = "idle"
      /\ entry'.cmd = "rollback"
      /\ pc' \in {"rolledback", "rollfailed"}
      /\ snapshots[cnt'.target] # <<>>) =>
       /\ Len(cnt'.docker) >= 1
       /\ IsPrefix(cnt'.docker, DockerCommands)
       /\ Len(cnt'.exits) = Len(cnt'.docker)
       /\ \A i \in 1..(Len(cnt'.exits) - 1) : cnt'.exits[i] = 0
       /\ (pc' = "rolledback") = (cnt'.docker = DockerCommands /\ Last(cnt'.exits) = 0)
       /\ (pc' = "rollfailed") = (Last(cnt'.exits) # 0)
       /\ pc' = "rolledback" =>
            /\ env'.loaded \in {snapshots[cnt'.target][i] :
                                  i \in 1..Len(snapshots[cnt'.target])}
            /\ \A i \in 1..Len(snapshots[cnt'.target]) :
                 snapshots[cnt'.target][i] <= env'.loaded
       /\ pc' = "rollfailed" => env'.loaded = env.loaded]_vars

\* the start command failed: stop and start were issued, load was not, and
\* the task has two snapshots
C37_Witness ==
  /\ pc = "rollfailed"
  /\ cnt.docker = <<"stop", "start">>
  /\ cnt.exits = <<0, 1>>
  /\ Len(snapshots[cnt.target]) = 2
  /\ ~env.running

\* C38: resume on a task id that has no row ends with the error exit: the
\* engine is not entered, no oracle call and no executor call is made and
\* nothing is written to the Store; the engine is entered only for an id
\* that has a row.
C38_ResumeMissing ==
  [][(pc = "idle" /\ entry'.cmd = "resume") =>
       /\ ~db[cnt'.target].exists =>
            /\ pc' = "resumefailed"
            /\ task' = NoTask
       /\ pc' = "loop" => (db[cnt'.target].exists /\ task'.id = cnt'.target)
       /\ pc' \in {"loop", "resumefailed"}
       /\ db' = db /\ dbAttempts' = dbAttempts
       /\ cnt'.oracle = 0 /\ cnt'.exec = 0 /\ cnt'.writes = 0]_vars

\* resume was asked for an id without a row and the command exited
C38_Witness ==
  /\ pc = "resumefailed"
  /\ entry.cmd = "resume"
  /\ cnt.target # NoId
  /\ ~db[cnt.target].exists
  /\ cnt.oracle = 0 /\ cnt.exec = 0 /\ cnt.writes = 0

====
